---- MODULE Spec2Model ----
(***************************************************************************)
(* The Bounce unit (Cubesat) of src/src/cubesat.rs: its per-slot state     *)
(* (SlotInfo), the commit handler Cubesat::process and the event loop      *)
(* Cubesat::run with its three tickers, its inbound, outbound and command  *)
(* channels.                                                               *)
(*                                                                         *)
(* Spec     one unit in an open environment: any commit may arrive.        *)
(* SpecHub  a committee of honest units wired through the hub, with one    *)
(*          client (ground station) submitting a precommit.                *)
(***************************************************************************)
EXTENDS Integers, Sequences, FiniteSets, Bags, TLC

VARIABLES
    slot_info,      \* [unit -> SlotInfo]                       (Cubesat.slot_info)
    pc,             \* [unit -> position of the unit's task]
    local,          \* [unit -> the handler's locals while it is suspended in a send]
    result_tx,      \* [unit -> outbound channel buffer]         (Cubesat.result_tx)
    request_rx,     \* [unit -> inbound channel buffer]          (Cubesat.request_rx)
    command_rx,     \* [unit -> command channel buffer]          (Cubesat.command_rx)
    closed,         \* [unit -> channels whose other end was dropped]
    timers,         \* [unit -> next deadline of slot_ticker, phase2_ticker, phase3_ticker]
    now,            \* the wall clock, in seconds
    num_cubesats,   \* BounceConfig.num_cubesats
    hub,            \* [unit -> bag of commits the hub still has to deliver to it]
    emitted,        \* [unit -> commits put on result_tx since the unit's last slot tick]
    agg_sent,       \* [unit -> the i and typ of every aggregated commit the unit has sent]
    submitted       \* number of precommits the client has submitted

vars == <<slot_info, pc, local, result_tx, request_rx, command_rx, closed, timers,
          now, num_cubesats, hub, emitted, agg_sent, submitted>>

Units == DOMAIN slot_info

(***************************************************************************)
(* Bounds of the model.                                                    *)
(***************************************************************************)
MaxTicks == 3       \* ticker expirations after the first slot tick; the clock stops there
MaxPending == 2     \* ticks a unit may have due and unhandled at once
MaxPendingHub == 1  \* the same for a unit of the committee
ResultCap == 1      \* capacity of the outbound channel: mpsc::channel(1) in the tests
RequestCap == 1     \* capacity of the inbound channel kept by the model
MaxSubmit == 1      \* precommits the client submits
MaxIndex == 2       \* largest slot index carried by a commit of the open environment
MaxCommittee == 7   \* largest committee size the threshold is tried with
MaxCommands == 1    \* commands the owner of a unit sends on its control channel

(***************************************************************************)
(* BounceConfig, as every test builds it (seconds).                        *)
(***************************************************************************)
slot_duration == 10
phase1_duration == 4
phase2_duration == 4

Precommit == "Precommit"
Noncommit == "Noncommit"
CommitType == {Precommit, Noncommit}
Phase == {"Stop", "First", "Second", "Third"}

(***************************************************************************)
(* The BLS scheme (bls_signatures_rs::bn256), by what it does: a signature *)
(* is the pair of the signing key and the message, an aggregate is the sum *)
(* (a bag) of what it aggregates.                                          *)
(***************************************************************************)
derive_public_key(sk) == "pk_" \o sk

sign(sk, msg) == SetToBag({<<sk, msg>>})

RECURSIVE BagSum(_)
BagSum(bags) == IF bags = <<>> THEN EmptyBag ELSE Head(bags) (+) BagSum(Tail(bags))

aggregate_signatures(sigs) == BagSum(sigs)

aggregate_public_keys(pks) == BagSum(pks)

\* Bn256.verify: the signature is made of one signature over msg for each
\* key combined in the public key, and of nothing else.
verify(signature, msg, pk) ==
    /\ \A e \in BagToSet(signature) : e[2] = msg
    /\ BagToSet(pk) = {derive_public_key(e[1]) : e \in BagToSet(signature)}
    /\ \A e \in BagToSet(signature) :
          CopiesIn(derive_public_key(e[1]), pk) = CopiesIn(e, signature)

private_key(u) == u

public_key(u) == SetToBag({derive_public_key(private_key(u))})

Commit(typ, i, j, msg, pk, sig, agg) ==
    [typ |-> typ, i |-> i, j |-> j, msg |-> msg, public_key |-> pk,
     signature |-> sig, aggregated |-> agg]

NoCommit == Commit(Precommit, 0, 0, "", EmptyBag, EmptyBag, FALSE)

\* The locals of a task that is not suspended in a send.
NoLocal == [sending |-> NoCommit, commit |-> NoCommit]

(***************************************************************************)
(* supermajority is imported from the crate root, which src/ does not      *)
(* hold; the values the specification pins (1 -> 1, 3 -> 3, 4 -> 3,        *)
(* 7 -> 5) and the tests (one commit finalizes with N = 1, not with N = 3) *)
(* are those of 2N/3 rounded down, plus one.                               *)
(***************************************************************************)
supermajority_two_thirds(n) == (2 * n + 2) \div 3

supermajority(n) == (2 * n) \div 3 + 1

(***************************************************************************)
(* SlotInfo                                                                *)
(***************************************************************************)
SlotInfo_new ==
    [i |-> 0, j |-> 0, phase |-> "Stop", signed |-> FALSE, aggregated |-> FALSE,
     precommits |-> <<>>, noncommits |-> <<>>]

next_keeps_noncommits(si) ==
    [si EXCEPT !.i = @ + 1, !.phase = "First", !.signed = FALSE,
               !.aggregated = FALSE, !.precommits = <<>>]

next(si) ==
    [si EXCEPT !.i = @ + 1, !.phase = "First", !.signed = FALSE,
               !.aggregated = FALSE, !.precommits = <<>>, !.noncommits = <<>>]

(***************************************************************************)
(* Cubesat::aggregate                                                      *)
(***************************************************************************)
aggregate(commits) ==
    <<aggregate_signatures([k \in 1..Len(commits) |-> commits[k].signature]),
      aggregate_public_keys([k \in 1..Len(commits) |-> commits[k].public_key])>>

(***************************************************************************)
(* The state a handler of unit u works on: its SlotInfo (si), the outbound *)
(* channel (tx), what was sent (em, ag), and where the task stands (pc,    *)
(* local).                                                                 *)
(***************************************************************************)
Handler(u) ==
    [si |-> slot_info[u], tx |-> result_tx[u], em |-> emitted[u], ag |-> agg_sent[u],
     pc |-> "select", local |-> NoLocal]

(***************************************************************************)
(* self.result_tx.send(c).await.unwrap(): the commit enters the channel;   *)
(* with the receiver dropped send fails and unwrap panics; with the        *)
(* channel full the task is suspended at `at`, keeping the handler's       *)
(* commit `keep` and the commit being sent.                                *)
(***************************************************************************)
Deliver(st, c) ==
    [st EXCEPT !.tx = Append(@, c), !.em = Append(@, c),
               !.ag = IF c.aggregated THEN Append(@, [i |-> c.i, typ |-> c.typ]) ELSE @]

send(u, st, c, at, keep) ==
    IF "result" \in closed[u] THEN [st EXCEPT !.pc = "panicked"]
    ELSE IF Len(st.tx) < ResultCap THEN Deliver(st, c)
    ELSE [st EXCEPT !.pc = at, !.local = [sending |-> c, commit |-> keep]]

(***************************************************************************)
(* Cubesat::process from the push on: the commit is appended to the        *)
(* collection of the phase (FIRST: precommits, THIRD: noncommits, SECOND:  *)
(* that of its type), and the collection is aggregated when it holds a     *)
(* supermajority.  Only the SECOND-phase noncommit branch leaves j alone.  *)
(***************************************************************************)
SetsJ(phase, typ) == ~(phase = "Second" /\ typ = Noncommit)

push_and_aggregate_above(u, st, commit) ==
    LET pre == (st.si.phase = "First") \/ (st.si.phase = "Second" /\ commit.typ = Precommit)
        si1 == IF pre THEN [st.si EXCEPT !.precommits = Append(@, commit)]
                      ELSE [st.si EXCEPT !.noncommits = Append(@, commit)]
        coll == IF pre THEN si1.precommits ELSE si1.noncommits
        agg == aggregate(coll)
        out == [commit EXCEPT !.signature = agg[1], !.public_key = agg[2],
                              !.aggregated = TRUE]
        si2 == [si1 EXCEPT !.aggregated = TRUE,
                           !.j = IF SetsJ(si1.phase, commit.typ) THEN commit.i ELSE @]
    IN  IF Len(coll) > supermajority(num_cubesats)
        THEN send(u, [st EXCEPT !.si = si2], out, "send_aggregated", out)
        ELSE [st EXCEPT !.si = si1]

push_and_aggregate(u, st, commit) ==
    LET pre == (st.si.phase = "First") \/ (st.si.phase = "Second" /\ commit.typ = Precommit)
        si1 == IF pre THEN [st.si EXCEPT !.precommits = Append(@, commit)]
                      ELSE [st.si EXCEPT !.noncommits = Append(@, commit)]
        coll == IF pre THEN si1.precommits ELSE si1.noncommits
        agg == aggregate(coll)
        out == [commit EXCEPT !.signature = agg[1], !.public_key = agg[2],
                              !.aggregated = TRUE]
        si2 == [si1 EXCEPT !.aggregated = TRUE,
                           !.j = IF SetsJ(si1.phase, commit.typ) THEN commit.i ELSE @]
    IN  IF Len(coll) >= supermajority(num_cubesats)
        THEN send(u, [st EXCEPT !.si = si2], out, "send_aggregated", out)
        ELSE [st EXCEPT !.si = si1]

(***************************************************************************)
(* The commit pushed after signing: FIRST overwrites the handler's commit  *)
(* with the signed one, SECOND and THIRD sign a clone that shadows it.     *)
(***************************************************************************)
Pushed_signed_clone(phase, commit, signed) == signed

Pushed(phase, commit, signed) == IF phase = "First" THEN signed ELSE commit

Accepts_noncommit_in_first(phase, typ) ==
    \/ phase = "First"
    \/ phase = "Second"
    \/ phase = "Third" /\ typ = Noncommit

\* The types a phase signs and collects: FIRST returns on a noncommit,
\* THIRD on a precommit.
Accepts(phase, typ) ==
    \/ phase = "First" /\ typ = Precommit
    \/ phase = "Second"
    \/ phase = "Third" /\ typ = Noncommit

adopt_without_j(si, commit) == [si EXCEPT !.aggregated = TRUE, !.i = commit.i]

\* The received commit is aggregated: just update the slot information.
adopt(si, commit) == [si EXCEPT !.aggregated = TRUE, !.i = commit.i, !.j = commit.j]

resign_keeps_key(u, commit) ==
    [commit EXCEPT !.signature = sign(private_key(u), commit.msg)]

\* The commit with the unit's signature over its msg and the unit's key.
resign(u, commit) ==
    [commit EXCEPT !.signature = sign(private_key(u), commit.msg),
                   !.public_key = public_key(u)]

\* match self.slot_info.phase { ... }
dispatch(u, st, commit) ==
    IF st.si.phase = "Stop" THEN st
    ELSE IF commit.aggregated THEN [st EXCEPT !.si = adopt(st.si, commit)]
    ELSE IF ~Accepts(st.si.phase, commit.typ) THEN st
    ELSE IF ~st.si.signed
    THEN LET signed == resign(u, commit)
             keep == Pushed(st.si.phase, commit, signed)
             st1 == send(u, [st EXCEPT !.si.signed = TRUE], signed, "send_signed", keep)
         IN  IF st1.pc = "select" THEN push_and_aggregate(u, st1, keep) ELSE st1
    ELSE push_and_aggregate(u, st, commit)

process_without_guard(u, st, commit) == dispatch(u, st, commit)

\* Cubesat::process: if this has already aggregated, then return.
process(u, st, commit) ==
    IF st.si.aggregated THEN st ELSE dispatch(u, st, commit)

(***************************************************************************)
(* The event loop, Cubesat::run.                                           *)
(***************************************************************************)
Tickers == {"slot", "phase2", "phase3"}

\* interval(slot_duration) ticks at once; interval_at(start, period) at start.
StartTimers(t) ==
    [slot |-> t, phase2 |-> t + phase1_duration,
     phase3 |-> t + phase1_duration + phase2_duration]

\* A ticker whose deadline has passed is ready; handling it moves the deadline
\* on by one period (missed ticks are caught up one by one).
Ready(u, k) == timers[u][k] <= now

Rearm(u, k) == [timers EXCEPT ![u][k] = @ + slot_duration]

\* Ticks of unit u that are due and not handled yet.
Due(u) ==
    LET n(k) == IF Ready(u, k) THEN 1 + (now - timers[u][k]) \div slot_duration ELSE 0
    IN  n("slot") + n("phase2") + n("phase3")

\* Ticker expirations the clock has seen by time t, the first slot tick apart.
Expired(t) ==
    3 * (t \div slot_duration)
    + (IF t % slot_duration >= phase1_duration + phase2_duration THEN 2
       ELSE IF t % slot_duration >= phase1_duration THEN 1 ELSE 0)

Running(u) == pc[u] \notin {"new", "exited", "panicked"}

\* The next instant at which a ticker of a running unit expires.
NextExpiry(u, k) ==
    IF timers[u][k] > now THEN timers[u][k]
    ELSE timers[u][k] + slot_duration * ((now - timers[u][k]) \div slot_duration + 1)

Expiries == {NextExpiry(u, k) : u \in {v \in Units : Running(v)}, k \in Tickers}

Commit_to(st, u) ==
    /\ slot_info' = [slot_info EXCEPT ![u] = st.si]
    /\ result_tx' = [result_tx EXCEPT ![u] = st.tx]
    /\ emitted' = [emitted EXCEPT ![u] = st.em]
    /\ agg_sent' = [agg_sent EXCEPT ![u] = st.ag]
    /\ pc' = [pc EXCEPT ![u] = st.pc]
    /\ local' = [local EXCEPT ![u] = st.local]

\* run() up to the loop: the tickers are created and the phase is FIRST.
Run(u) ==
    /\ pc[u] = "new"
    /\ pc' = [pc EXCEPT ![u] = "select"]
    /\ timers' = [timers EXCEPT ![u] = StartTimers(now)]
    /\ slot_info' = [slot_info EXCEPT ![u].phase = "First"]
    /\ UNCHANGED <<local, result_tx, request_rx, command_rx, closed, now, num_cubesats,
                   hub, emitted, agg_sent, submitted>>

\* _ = slot_ticker.tick() => self.slot_info.next()
SlotTick(u) ==
    /\ pc[u] = "select"
    /\ Ready(u, "slot")
    /\ slot_info' = [slot_info EXCEPT ![u] = next(@)]
    /\ timers' = Rearm(u, "slot")
    /\ emitted' = [emitted EXCEPT ![u] = <<>>]
    /\ UNCHANGED <<pc, local, result_tx, request_rx, command_rx, closed, now,
                   num_cubesats, hub, agg_sent, submitted>>

\* _ = phase2_ticker.tick() => phase = Second
Phase2Tick(u) ==
    /\ pc[u] = "select"
    /\ Ready(u, "phase2")
    /\ slot_info' = [slot_info EXCEPT ![u].phase = "Second"]
    /\ timers' = Rearm(u, "phase2")
    /\ UNCHANGED <<pc, local, result_tx, request_rx, command_rx, closed, now,
                   num_cubesats, hub, emitted, agg_sent, submitted>>

format_noncommit(j, i) == "noncommit(" \o ToString(j + 1) \o ", " \o ToString(i) \o ")"

tick_noncommit_unshifted(u, si) ==
    LET msg == format_noncommit(si.j - 1, si.i)
    IN  Commit(Noncommit, si.i, si.j, msg, public_key(u), sign(private_key(u), msg), FALSE)

\* The noncommit for (j + 1, i) built by the phase-3 tick.
tick_noncommit(u, si) ==
    LET msg == format_noncommit(si.j, si.i)
    IN  Commit(Noncommit, si.i, si.j, msg, public_key(u), sign(private_key(u), msg), FALSE)

\* _ = phase3_ticker.tick() => phase = Third, sign and send the noncommit
Phase3Tick(u) ==
    /\ pc[u] = "select"
    /\ Ready(u, "phase3")
    /\ LET st == [Handler(u) EXCEPT !.si.phase = "Third"]
           c == tick_noncommit(u, st.si)
       IN  Commit_to(send(u, st, c, "send_noncommit", c), u)
    /\ timers' = Rearm(u, "phase3")
    /\ UNCHANGED <<request_rx, command_rx, closed, now, num_cubesats, hub, submitted>>

\* Some(commit) = self.request_rx.recv() => self.process(commit).await
RecvCommit(u) ==
    /\ pc[u] = "select"
    /\ request_rx[u] # <<>>
    /\ Commit_to(process(u, Handler(u), Head(request_rx[u])), u)
    /\ request_rx' = [request_rx EXCEPT ![u] = Tail(@)]
    /\ UNCHANGED <<command_rx, closed, timers, now, num_cubesats, hub, submitted>>

\* A send that was suspended on the full channel completes (or fails, the
\* receiver gone), and the handler runs on from there.
Resume(u) ==
    /\ pc[u] \in {"send_signed", "send_aggregated", "send_noncommit"}
    /\ Len(result_tx[u]) < ResultCap \/ "result" \in closed[u]
    /\ LET st == Handler(u)
           st1 == send(u, st, local[u].sending, pc[u], local[u].commit)
       IN  Commit_to(IF pc[u] = "send_signed" /\ st1.pc = "select"
                     THEN push_and_aggregate(u, st1, local[u].commit)
                     ELSE st1, u)
    /\ UNCHANGED <<request_rx, command_rx, closed, timers, now, num_cubesats, hub,
                   submitted>>

\* Some(cmd) = self.command_rx.recv() => Command::Terminate => break
RecvCommand(u) ==
    /\ pc[u] = "select"
    /\ command_rx[u] # <<>>
    /\ command_rx' = [command_rx EXCEPT ![u] = Tail(@)]
    /\ pc' = [pc EXCEPT ![u] = IF Head(command_rx[u]) = "Terminate" THEN "exited" ELSE @]
    /\ UNCHANGED <<slot_info, local, result_tx, request_rx, closed, timers, now,
                   num_cubesats, hub, emitted, agg_sent, submitted>>

(***************************************************************************)
(* The environment: the clock, the hub and the client.                     *)
(***************************************************************************)
Min(S) == CHOOSE x \in S : \A y \in S : x <= y

Advance(maxPending) ==
    /\ \A u \in Units : pc[u] # "new"
    /\ Expiries # {}
    /\ \A u \in Units : Running(u) => Due(u) < maxPending
    /\ Expired(Min(Expiries)) <= MaxTicks
    /\ now' = Min(Expiries)
    /\ UNCHANGED <<slot_info, pc, local, result_tx, request_rx, command_rx, closed,
                   timers, num_cubesats, hub, emitted, agg_sent, submitted>>

\* The hub takes the next commit of unit u and owes it to every other unit.
HubRecv(u) ==
    /\ "result" \notin closed[u]
    /\ result_tx[u] # <<>>
    /\ result_tx' = [result_tx EXCEPT ![u] = Tail(@)]
    /\ hub' = [v \in Units |->
                 IF v = u THEN hub[v] ELSE hub[v] (+) SetToBag({Head(result_tx[u])})]
    /\ UNCHANGED <<slot_info, pc, local, request_rx, command_rx, closed, timers, now,
                   num_cubesats, emitted, agg_sent, submitted>>

\* The hub delivers, in any order, a commit it owes to unit v.
HubSend(v) ==
    /\ Len(request_rx[v]) < RequestCap
    /\ \E c \in BagToSet(hub[v]) :
          /\ hub' = [hub EXCEPT ![v] = @ (-) SetToBag({c})]
          /\ request_rx' = [request_rx EXCEPT ![v] = Append(@, c)]
    /\ UNCHANGED <<slot_info, pc, local, result_tx, command_rx, closed, timers, now,
                   num_cubesats, emitted, agg_sent, submitted>>

\* The precommit of the client (the ground station of the tests): i = 1, j = 0.
client_precommit ==
    Commit(Precommit, 1, 0, "hello", public_key("gs"), sign(private_key("gs"), "hello"),
           FALSE)

\* The client submits its precommit, which the hub owes to every unit.
ClientSubmit ==
    /\ submitted < MaxSubmit
    /\ submitted' = submitted + 1
    /\ hub' = [v \in Units |-> hub[v] (+) SetToBag({client_precommit})]
    /\ UNCHANGED <<slot_info, pc, local, result_tx, request_rx, command_rx, closed,
                   timers, now, num_cubesats, emitted, agg_sent>>

\* What the open environment may put on a unit's inbound channel: precommits
\* signed by the client, noncommits signed by a peer, and commits aggregated
\* by peers, of either type and for any slot index i (with j = i - 1).
EnvCommits ==
    LET peers == <<public_key("p1"), public_key("p2")>>
        sigs(msg) == <<sign(private_key("p1"), msg), sign(private_key("p2"), msg)>>
    IN  UNION {
          { Commit(Precommit, i, i - 1, "hello", public_key("gs"),
                   sign(private_key("gs"), "hello"), FALSE),
            Commit(Noncommit, i, i - 1, format_noncommit(i - 1, i), public_key("p1"),
                   sign(private_key("p1"), format_noncommit(i - 1, i)), FALSE),
            Commit(Precommit, i, i - 1, "hello", aggregate_public_keys(peers),
                   aggregate_signatures(sigs("hello")), TRUE),
            Commit(Noncommit, i, i - 1, format_noncommit(i - 1, i),
                   aggregate_public_keys(peers),
                   aggregate_signatures(sigs(format_noncommit(i - 1, i))), TRUE) }
          : i \in 1..MaxIndex }

EnvSend(u, c) ==
    /\ "request" \notin closed[u]
    /\ Len(request_rx[u]) < RequestCap
    /\ request_rx' = [request_rx EXCEPT ![u] = Append(@, c)]
    /\ UNCHANGED <<slot_info, pc, local, result_tx, command_rx, closed, timers, now,
                   num_cubesats, hub, emitted, agg_sent, submitted>>

(***************************************************************************)
(* Specifications.                                                         *)
(***************************************************************************)
InitUnits(U) ==
    /\ slot_info = [u \in U |-> SlotInfo_new]
    /\ pc = [u \in U |-> "new"]
    /\ local = [u \in U |-> NoLocal]
    /\ result_tx = [u \in U |-> <<>>]
    /\ request_rx = [u \in U |-> <<>>]
    /\ command_rx = [u \in U |-> <<>>]
    /\ closed = [u \in U |-> {}]
    /\ timers = [u \in U |-> StartTimers(0)]
    /\ now = 0
    /\ hub = [u \in U |-> EmptyBag]
    /\ emitted = [u \in U |-> <<>>]
    /\ agg_sent = [u \in U |-> <<>>]
    /\ submitted = 0

Init ==
    /\ InitUnits({"u1"})
    /\ num_cubesats \in {1, 2}

Next ==
    \/ \E u \in Units : Run(u)
    \/ \E u \in Units : SlotTick(u)
    \/ \E u \in Units : Phase2Tick(u)
    \/ \E u \in Units : Phase3Tick(u)
    \/ \E u \in Units : RecvCommit(u)
    \/ \E u \in Units : Resume(u)
    \/ \E u \in Units : HubRecv(u)
    \/ \E u \in Units, c \in EnvCommits : EnvSend(u, c)
    \/ Advance(MaxPending)

Spec == Init /\ [][Next]_vars

InitHub ==
    /\ InitUnits({"u1", "u2"})
    /\ num_cubesats = 2

NextHub ==
    \/ \E u \in Units : Run(u)
    \/ \E u \in Units : SlotTick(u)
    \/ \E u \in Units : Phase2Tick(u)
    \/ \E u \in Units : Phase3Tick(u)
    \/ \E u \in Units : RecvCommit(u)
    \/ \E u \in Units : Resume(u)
    \/ \E u \in Units : HubRecv(u)
    \/ \E u \in Units : HubSend(u)
    \/ ClientSubmit
    \/ Advance(MaxPendingHub)

SpecHub == InitHub /\ [][NextHub]_vars

\* The individual commits of slot 1 the open environment holds.
FirstSlotCommits == {c \in EnvCommits : ~c.aggregated /\ c.i = 1}

(***************************************************************************)
(* SpecThreshold: one unit of a committee of any size up to MaxCommittee,  *)
(* fed the individual commits of slot 1, to try the threshold at work.     *)
(***************************************************************************)
InitThreshold ==
    /\ InitUnits({"u1"})
    /\ num_cubesats \in 1..MaxCommittee

NextThreshold ==
    \/ \E u \in Units : Run(u)
    \/ \E u \in Units : SlotTick(u)
    \/ \E u \in Units : Phase2Tick(u)
    \/ \E u \in Units : Phase3Tick(u)
    \/ \E u \in Units : RecvCommit(u)
    \/ \E u \in Units : Resume(u)
    \/ \E u \in Units : HubRecv(u)
    \/ \E u \in Units, c \in FirstSlotCommits : EnvSend(u, c)
    \/ Advance(MaxPendingHub)

SpecThreshold == InitThreshold /\ [][NextThreshold]_vars

(***************************************************************************)
(* SpecControl: one unit (N = 1, as in tests::cubesat_terminate) with its  *)
(* control channel: the owner sends TERMINATE, or drops the sender of the  *)
(* control channel or of the inbound channel.  select! picks at random     *)
(* among the branches that are ready, so a command that is ready every     *)
(* time the loop comes back to select! is taken in the end; the spawned    *)
(* task does run, and a suspended send goes on once the channel has room.  *)
(* Nothing obliges the environment to drain the outbound channel.          *)
(***************************************************************************)
ControlUnits == {"u1"}

\* command_tx.send(Command::Terminate)
SendTerminate(u) ==
    /\ "command" \notin closed[u]
    /\ Len(command_rx[u]) < MaxCommands
    /\ command_rx' = [command_rx EXCEPT ![u] = Append(@, "Terminate")]
    /\ UNCHANGED <<slot_info, pc, local, result_tx, request_rx, closed, timers, now,
                   num_cubesats, hub, emitted, agg_sent, submitted>>

\* Every sender of channel ch ("command" or "request") of unit u is dropped:
\* recv() yields what the channel still holds, then None, and the branch
\* `Some(..) = recv()` of select! is disabled.  With ch = "result" the
\* receiver of the outbound channel is dropped: send() fails from then on.
CloseChannel(u, ch) ==
    /\ ch \notin closed[u]
    /\ closed' = [closed EXCEPT ![u] = @ \cup {ch}]
    /\ UNCHANGED <<slot_info, pc, local, result_tx, request_rx, command_rx, timers, now,
                   num_cubesats, hub, emitted, agg_sent, submitted>>

InitControl ==
    /\ InitUnits(ControlUnits)
    /\ num_cubesats = 1

NextControl ==
    \/ \E u \in Units : Run(u)
    \/ \E u \in Units : SlotTick(u)
    \/ \E u \in Units : Phase2Tick(u)
    \/ \E u \in Units : Phase3Tick(u)
    \/ \E u \in Units : RecvCommit(u)
    \/ \E u \in Units : Resume(u)
    \/ \E u \in Units : RecvCommand(u)
    \/ \E u \in Units : HubRecv(u)
    \/ \E u \in Units, c \in FirstSlotCommits : EnvSend(u, c)
    \/ \E u \in Units : SendTerminate(u)
    \/ \E u \in Units : CloseChannel(u, "command")
    \/ \E u \in Units : CloseChannel(u, "request")
    \/ Advance(MaxPending)

SpecControl ==
    /\ InitControl
    /\ [][NextControl]_vars
    /\ \A u \in ControlUnits :
          WF_vars(Run(u)) /\ SF_vars(RecvCommand(u)) /\ WF_vars(Resume(u))

(***************************************************************************)
(* SpecConfig: the unit of SpecThreshold built with a committee size that  *)
(* may be 0: Cubesat::new stores the configuration as it is given.         *)
(***************************************************************************)
InitConfig ==
    /\ InitUnits({"u1"})
    /\ num_cubesats \in {0, 1}

SpecConfig == InitConfig /\ [][NextThreshold]_vars

(***************************************************************************)
(* SpecOutbound: the unit of SpecControl with an outbound channel whose    *)
(* receiver may be slow, or dropped (as tests::cubesat_terminate drops     *)
(* it at once).                                                            *)
(***************************************************************************)
NextOutbound ==
    \/ \E u \in Units : Run(u)
    \/ \E u \in Units : SlotTick(u)
    \/ \E u \in Units : Phase2Tick(u)
    \/ \E u \in Units : Phase3Tick(u)
    \/ \E u \in Units : RecvCommit(u)
    \/ \E u \in Units : Resume(u)
    \/ \E u \in Units : HubRecv(u)
    \/ \E u \in Units, c \in FirstSlotCommits : EnvSend(u, c)
    \/ \E u \in Units : CloseChannel(u, "result")
    \/ Advance(MaxPending)

SpecOutbound == InitControl /\ [][NextOutbound]_vars

(***************************************************************************)
(* Properties.                                                             *)
(***************************************************************************)
Individual(s) == {k \in DOMAIN s : ~s[k].aggregated}

\* C1 (I1): between two slot ticks a unit puts at most one non-aggregated
\* commit on its outbound channel, the noncommit of the phase-3 tick counted.
C1_AtMostOneIndividualPerSlot ==
    \A u \in Units : Cardinality(Individual(emitted[u])) <= 1

Sending == {"send_signed", "send_aggregated", "send_noncommit"}

\* C2 (I2): a unit whose aggregated flag is set, and which is not in the
\* middle of sending the aggregated commit itself, neither sends nor starts
\* to send a commit before its next slot tick.
C2_SilentOnceAggregated ==
    [][\A u \in Units :
          (slot_info[u].aggregated /\ slot_info'[u].aggregated /\ pc[u] = "select")
          => (emitted'[u] = emitted[u] /\ pc'[u] \notin Sending)]_vars

\* C3 (I3): a unit never sends two aggregated commits with the same i.
C3_AtMostOneAggregatedPerIndex ==
    \A u \in Units : \A k, l \in DOMAIN agg_sent[u] :
        agg_sent[u][k].i = agg_sent[u][l].i => k = l

\* C4 (agreement): the aggregated commits the units of the committee send
\* for one slot index all have the same type.
C4_Agreement ==
    \A u, v \in Units : \A k \in DOMAIN agg_sent[u], l \in DOMAIN agg_sent[v] :
        agg_sent[u][k].i = agg_sent[v][l].i => agg_sent[u][k].typ = agg_sent[v][l].typ

CommitteeKeys == {derive_public_key(private_key(u)) : u \in Units}

\* C5: the keys combined in an aggregated commit a unit sends are those of at
\* least supermajority(N) members of the committee, each counted once.
C5_SupermajorityOfDistinctMembers ==
    \A u \in Units : \A k \in DOMAIN emitted[u] :
        emitted[u][k].aggregated =>
            LET keys == emitted[u][k].public_key
            IN  /\ BagToSet(keys) \subseteq CommitteeKeys
                /\ \A x \in BagToSet(keys) : keys[x] = 1
                /\ Cardinality(BagToSet(keys)) >= supermajority(num_cubesats)

\* C6: SlotInfo::next(), from any state, clears signed, aggregated and both
\* collections, sets the phase to FIRST, adds one to i and leaves j alone.
C6_NextResetsSlot ==
    [][\A u \in Units :
          timers'[u].slot # timers[u].slot =>
              LET a == slot_info[u]
                  b == slot_info'[u]
              IN  /\ b.signed = FALSE /\ b.aggregated = FALSE
                  /\ b.precommits = <<>> /\ b.noncommits = <<>>
                  /\ b.phase = "First"
                  /\ b.i = a.i + 1
                  /\ b.j = a.j]_vars

\* The second slot has begun, with j kept from the first.
C6_Witness ==
    \E u \in Units :
        /\ timers[u].slot = 2 * slot_duration
        /\ slot_info[u] = [SlotInfo_new EXCEPT !.i = 2, !.j = 1, !.phase = "First"]

\* The step of unit u that receives the commit at the head of its inbound
\* channel and runs process on it.
RecvStep(u) ==
    /\ pc[u] = "select"
    /\ request_rx[u] # <<>>
    /\ request_rx'[u] = Tail(request_rx[u])

\* C7 (adoption): in FIRST, SECOND or THIRD with aggregated = false, process
\* of an aggregated commit C of either type sets aggregated, i = C.i and
\* j = C.j, sends nothing and leaves signed, phase and both collections.
C7_Adoption ==
    [][\A u \in Units :
          (/\ RecvStep(u)
           /\ Head(request_rx[u]).aggregated
           /\ ~slot_info[u].aggregated
           /\ slot_info[u].phase \in {"First", "Second", "Third"})
          => LET C == Head(request_rx[u])
                 a == slot_info[u]
                 b == slot_info'[u]
             IN  /\ b.aggregated /\ b.i = C.i /\ b.j = C.j
                 /\ b.signed = a.signed /\ b.phase = a.phase
                 /\ b.precommits = a.precommits /\ b.noncommits = a.noncommits
                 /\ result_tx'[u] = result_tx[u] /\ emitted'[u] = emitted[u]
                 /\ pc'[u] = "select"]_vars

\* In its first slot a unit that has sent no aggregated commit holds i = 2,
\* j = 1 and aggregated: it has adopted the aggregated commit (i = 2, j = 1).
C7_Witness ==
    \E u \in Units :
        /\ timers[u].slot = slot_duration
        /\ agg_sent[u] = <<>>
        /\ slot_info[u].aggregated /\ slot_info[u].i = 2 /\ slot_info[u].j = 1

\* C8: with aggregated = true on entry, process changes no field of the
\* SlotInfo and sends nothing, whatever the phase and the commit.
C8_AggregatedReturnsAtOnce ==
    [][\A u \in Units :
          (RecvStep(u) /\ slot_info[u].aggregated)
          => /\ slot_info'[u] = slot_info[u]
             /\ result_tx'[u] = result_tx[u] /\ emitted'[u] = emitted[u]
             /\ pc'[u] = "select"]_vars

\* A unit that has aggregated is about to receive an aggregated commit for
\* another slot index.
C8_Witness ==
    \E u \in Units :
        /\ pc[u] = "select" /\ slot_info[u].aggregated
        /\ request_rx[u] # <<>>
        /\ Head(request_rx[u]).aggregated
        /\ Head(request_rx[u]).i # slot_info[u].i

\* C9: a noncommit in FIRST, a precommit in THIRD (both non-aggregated) and
\* any commit in STOP leave the SlotInfo as it is and send nothing.
C9_IgnoresUnacceptedType ==
    \A u \in Units : \A c \in EnvCommits :
        (/\ pc[u] \in {"new", "select"}
         /\ \/ slot_info[u].phase = "Stop"
            \/ ~c.aggregated /\ slot_info[u].phase = "First" /\ c.typ = Noncommit
            \/ ~c.aggregated /\ slot_info[u].phase = "Third" /\ c.typ = Precommit)
        => process(u, Handler(u), c) = Handler(u)

\* A unit in THIRD that has neither signed nor aggregated is about to
\* receive a precommit.
C9_Witness ==
    \E u \in Units :
        /\ pc[u] = "select" /\ slot_info[u].phase = "Third"
        /\ ~slot_info[u].signed /\ ~slot_info[u].aggregated
        /\ request_rx[u] # <<>>
        /\ ~Head(request_rx[u]).aggregated /\ Head(request_rx[u]).typ = Precommit

\* The non-aggregated commits a step of unit u sends, or is suspended sending.
IndividualSent(u) ==
    LET new == SubSeq(emitted'[u], Len(emitted[u]) + 1, Len(emitted'[u]))
        Single(c) == ~c.aggregated
    IN  SelectSeq(new, Single)
        \o (IF pc'[u] = "send_signed" THEN <<local'[u].sending>> ELSE <<>>)

\* C10 (sign-if-needed): process of an accepted non-aggregated commit C with
\* signed = false sets signed and sends exactly one non-aggregated commit: C
\* with the unit's key and the unit's signature over C.msg; with signed = true
\* it sends no non-aggregated commit.
C10_SignIfNeeded ==
    [][\A u \in Units :
          LET C == Head(request_rx[u])
              a == slot_info[u]
          IN  (/\ RecvStep(u)
               /\ ~a.aggregated /\ ~C.aggregated
               /\ \/ a.phase = "First" /\ C.typ = Precommit
                  \/ a.phase = "Second"
                  \/ a.phase = "Third" /\ C.typ = Noncommit)
              => /\ slot_info'[u].signed
                 /\ IndividualSent(u) =
                      IF a.signed THEN <<>>
                      ELSE << Commit(C.typ, C.i, C.j, C.msg, public_key(u),
                                     sign(private_key(u), C.msg), FALSE) >>]_vars

\* A unit has signed the client's precommit and sent it under its own key.
C10_Witness ==
    \E u \in Units :
        /\ slot_info[u].signed
        /\ \E k \in DOMAIN emitted[u] :
              emitted[u][k] = Commit(Precommit, 1, 0, "hello", public_key(u),
                                     sign(private_key(u), "hello"), FALSE)

\* The step of unit u in which process gets to its push: the step that
\* receives the commit, unless its send of the signed commit is suspended on
\* the full channel, and then the step that completes that send.
PushStep(u) ==
    \/ RecvStep(u) /\ pc'[u] \notin {"send_signed", "panicked"}
    \/ pc[u] = "send_signed" /\ pc'[u] \notin {"send_signed", "panicked"}

\* The commit process is handling in that step.
Handled(u) == IF pc[u] = "send_signed" THEN local[u].commit ELSE Head(request_rx[u])

\* C11 (SECOND-phase tracking): in SECOND with aggregated = false, process
\* appends a non-aggregated inbound commit C, as received, to the collection
\* of C's type and leaves the other collection, whether or not the unit signs
\* C; a unit that had signed sends no non-aggregated commit; and the unit
\* aggregates exactly when the collection of C's type has reached the
\* threshold.
C11_SecondPhaseTracking ==
    [][\A u \in Units :
          LET C == Handled(u)
              a == slot_info[u]
              b == slot_info'[u]
              own == IF C.typ = Precommit THEN b.precommits ELSE b.noncommits
          IN  (PushStep(u) /\ a.phase = "Second" /\ ~a.aggregated /\ ~C.aggregated)
              => /\ b.precommits =
                      IF C.typ = Precommit THEN Append(a.precommits, C) ELSE a.precommits
                 /\ b.noncommits =
                      IF C.typ = Noncommit THEN Append(a.noncommits, C) ELSE a.noncommits
                 /\ (RecvStep(u) /\ a.signed) => IndividualSent(u) = <<>>
                 /\ b.aggregated <=> Len(own) >= supermajority(num_cubesats)]_vars

\* In SECOND a unit has sent one commit of its own and holds one precommit
\* and one noncommit, below the threshold.
C11_Witness ==
    \E u \in Units :
        /\ slot_info[u].phase = "Second" /\ ~slot_info[u].aggregated
        /\ slot_info[u].signed
        /\ Len(slot_info[u].precommits) = 1 /\ Len(slot_info[u].noncommits) = 1
        /\ Len(emitted[u]) = 1 /\ pc[u] = "select"

\* The aggregated commits a step of unit u sends, or is suspended sending.
AggregatedSent(u) ==
    LET new == SubSeq(emitted'[u], Len(emitted[u]) + 1, Len(emitted'[u]))
        Agg(c) == c.aggregated
    IN  SelectSeq(new, Agg)
        \o (IF pc'[u] = "send_aggregated" /\ pc[u] # "send_aggregated"
            THEN <<local'[u].sending>> ELSE <<>>)

\* C12 (aggregate-iff-supermajority): process of an accepted commit C sends
\* an aggregated commit if and only if, C appended, the collection of C's
\* type holds supermajority(N) entries or more; that commit is aggregated
\* and has C's typ, i and msg, and the step sets the aggregated flag.  An
\* aggregated commit sent in FIRST is a precommit, one sent in THIRD a
\* noncommit.
C12_AggregateIffSupermajority ==
    [][\A u \in Units :
          LET C == Handled(u)
              a == slot_info[u]
              b == slot_info'[u]
              own == IF C.typ = Precommit THEN b.precommits ELSE b.noncommits
              sent == AggregatedSent(u)
          IN  /\ (/\ PushStep(u)
                  /\ ~a.aggregated /\ ~C.aggregated
                  /\ \/ a.phase = "First" /\ C.typ = Precommit
                     \/ a.phase = "Second"
                     \/ a.phase = "Third" /\ C.typ = Noncommit)
                 => /\ sent # <<>> <=> Len(own) >= supermajority(num_cubesats)
                    /\ sent # <<>> =>
                          /\ Len(sent) = 1 /\ sent[1].aggregated
                          /\ sent[1].typ = C.typ /\ sent[1].i = C.i
                          /\ sent[1].msg = C.msg
                          /\ b.aggregated
              /\ \A k \in DOMAIN sent :
                    /\ a.phase = "First" => sent[k].typ = Precommit
                    /\ a.phase = "Third" => sent[k].typ = Noncommit]_vars

\* With N = 2 a unit in THIRD holds two noncommits and has sent the
\* aggregated noncommit made of them.
C12_Witness ==
    \E u \in Units :
        /\ num_cubesats = 2
        /\ slot_info[u].phase = "Third" /\ slot_info[u].aggregated
        /\ Len(slot_info[u].noncommits) = 2
        /\ \E k \in DOMAIN emitted[u] :
              emitted[u][k].aggregated /\ emitted[u][k].typ = Noncommit

\* C13 (finalized index): whenever the aggregated flag of a unit goes from
\* false to true, by the unit aggregating a collection of either type or by
\* its adopting a received aggregated commit, j becomes the slot index i of
\* that aggregated commit.
C13_FinalizedIndex ==
    [][\A u \in Units :
          (~slot_info[u].aggregated /\ slot_info'[u].aggregated)
          => slot_info'[u].j = Handled(u).i]_vars

\* 2N/3 rounded up.
CeilTwoThirds(n) == (2 * n + 2) \div 3

Pinned == [n \in {1, 3, 4, 7} |-> CASE n = 1 -> 1 [] n = 3 -> 3 [] n = 4 -> 3 [] n = 7 -> 5]

C16_AggregatedVerifies ==
    \A u \in Units : \A k \in DOMAIN emitted[u] :
        emitted[u][k].aggregated =>
            verify(emitted[u][k].signature, emitted[u][k].msg, emitted[u][k].public_key)

\* What unit u has put on its outbound channel since the slot tick, after a
\* step, the commit it is suspended sending included.
Outbound(u) ==
    emitted'[u] \o (IF pc'[u] \in Sending THEN <<local'[u].sending>> ELSE <<>>)

\* C17: when one call of process signs a commit C and aggregates, the
\* outbound channel gets the unit's non-aggregated commit and then the
\* aggregated commit, both with C's typ, i and msg; afterwards signed and
\* aggregated are true, the collection holds one entry and j = C.i.
C17_SignThenAggregate ==
    [][\A u \in Units :
          LET C == Handled(u)
              a == slot_info[u]
              b == slot_info'[u]
              own == IF C.typ = Precommit THEN b.precommits ELSE b.noncommits
              out == Outbound(u)
              n == Len(out)
          IN  (/\ PushStep(u)
               /\ (~a.signed \/ pc[u] = "send_signed")
               /\ ~C.aggregated
               /\ ~a.aggregated /\ b.aggregated)
              => /\ n >= 2
                 /\ ~out[n - 1].aggregated /\ out[n].aggregated
                 /\ out[n - 1].public_key = public_key(u)
                 /\ \A k \in {n - 1, n} :
                       out[k].typ = C.typ /\ out[k].i = C.i /\ out[k].msg = C.msg
                 /\ b.signed /\ b.aggregated
                 /\ Len(own) = 1
                 /\ b.j = C.i]_vars

\* The commits a step of unit u sends, or is suspended sending.
StepSent(u) ==
    SubSeq(emitted'[u], Len(emitted[u]) + 1, Len(emitted'[u]))
    \o (IF pc'[u] \in Sending /\ pc[u] \notin Sending THEN <<local'[u].sending>> ELSE <<>>)

TerminatePending(u) ==
    \E k \in DOMAIN command_rx[u] : command_rx[u][k] = "Terminate"

\* Once the loop of unit u has exited the unit handles no tick and no
\* inbound commit and sends nothing.
StaysExited(u) ==
    pc[u] = "exited"
    => /\ pc'[u] = "exited"
       /\ slot_info'[u] = slot_info[u] /\ timers'[u] = timers[u]
       /\ emitted'[u] = emitted[u]
       /\ Len(request_rx'[u]) >= Len(request_rx[u])

\* C19 (TERMINATE): once a TERMINATE command is in the control channel of a
\* unit its loop exits in the end, also when the outbound channel is full
\* and is not drained; the loop exits between two events only, and an
\* exited unit handles nothing and sends nothing.
C19_Terminate ==
    /\ \A u \in ControlUnits : TerminatePending(u) ~> (pc[u] = "exited")
    /\ [][\A u \in ControlUnits :
             /\ (pc[u] # "exited" /\ pc'[u] = "exited") => pc[u] = "select"
             /\ StaysExited(u)]_vars

C21_IgnoresMismatchedIndex ==
    [][\A u \in Units :
          (/\ RecvStep(u)
           /\ ~Head(request_rx[u]).aggregated
           /\ Head(request_rx[u]).i # slot_info[u].i)
          => /\ slot_info'[u] = slot_info[u]
             /\ StepSent(u) = <<>>
             /\ pc'[u] = "select"]_vars

\* A configuration the specification calls an error.
ConfigError ==
    \/ num_cubesats = 0
    \/ slot_duration <= 0 \/ phase1_duration <= 0 \/ phase2_duration <= 0
    \/ phase1_duration + phase2_duration >= slot_duration

\* C22: a unit built with a committee size of 0, a duration that is not
\* positive or phase1_duration + phase2_duration >= slot_duration never
\* enters its event loop: it handles no tick and no commit.
C22_ConfigRejected ==
    \A u \in Units :
        ConfigError => (pc[u] = "new" /\ slot_info[u] = SlotInfo_new /\ emitted[u] = <<>>)

\* C23: the slot index i of a unit starts at 0, never decreases, and changes
\* only by the +1 of a slot tick, whatever commits the unit processes,
\* adopted aggregated commits included.
C23_MonotonicIndex ==
    /\ \A u \in Units : pc[u] = "new" => slot_info[u].i = 0
    /\ [][\A u \in Units :
             /\ slot_info'[u].i >= slot_info[u].i
             /\ slot_info'[u].i # slot_info[u].i
                => (/\ timers'[u].slot # timers[u].slot
                    /\ slot_info'[u].i = slot_info[u].i + 1)]_vars

\* C24 (phase order): the phase of a unit changes along STOP -> FIRST ->
\* SECOND -> THIRD -> FIRST only, also when several ticks are due at once:
\* SECOND is entered from FIRST only, THIRD from SECOND only, FIRST from
\* STOP or THIRD only, and STOP is never entered.
C24_PhaseOrder ==
    [][\A u \in Units :
          LET p == slot_info[u].phase
              q == slot_info'[u].phase
          IN  p # q => /\ q # "Stop"
                       /\ q = "First" => p \in {"Stop", "Third"}
                       /\ q = "Second" => p = "First"
                       /\ q = "Third" => p = "Second"]_vars

\* C25 (self-signed entry): a unit that has signed through process, and has
\* got past the send of its signed commit, holds in one of its collections
\* an entry with its own public key and its own signature: the entry
\* appended by the call that signed is the re-signed commit, in every phase.
C25_SelfSignedEntry ==
    \A u \in Units :
        (slot_info[u].signed /\ pc[u] # "send_signed")
        => \E s \in {slot_info[u].precommits, slot_info[u].noncommits} :
              \E k \in DOMAIN s :
                 /\ s[k].public_key = public_key(u)
                 /\ s[k].signature = sign(private_key(u), s[k].msg)

\* C26 (noncommit agreement): in the committee the individual NONCOMMITs
\* sent for one slot i, which are the noncommits of the units' phase-3
\* ticks and the copies process re-signs of them, all carry the same msg
\* "noncommit(j+1, i)": the units hold the same j when their phase-3 ticks
\* fire.
C26_NoncommitAgreement ==
    \A u, v \in Units : \A k \in DOMAIN emitted[u], l \in DOMAIN emitted[v] :
        LET c == emitted[u][k]
            d == emitted[v][l]
        IN  (/\ c.typ = Noncommit /\ ~c.aggregated
             /\ d.typ = Noncommit /\ ~d.aggregated
             /\ c.i = d.i)
            => c.msg = d.msg

\* C27: a send that finds the outbound channel full aborts the actor, which
\* is never left suspended waiting for room; and with the outbound channel
\* closed a unit sends nothing and its phase-3 tick aborts it.
C27_FullOutboundIsFatal ==
    [][\A u \in Units :
          /\ pc'[u] \notin Sending
          /\ "result" \in closed[u]
             => /\ StepSent(u) = <<>>
                /\ timers'[u].phase3 # timers[u].phase3 => pc'[u] = "panicked"]_vars

\* The collections of unit u hold at most n entries each.
AtMost(u, n) ==
    Len(slot_info[u].precommits) <= n /\ Len(slot_info[u].noncommits) <= n

\* C28 (bounded collections): where a unit selects its next event with
\* aggregated = false, each collection holds fewer than supermajority(N)
\* entries; in every state each holds at most supermajority(N); and both
\* are empty right after a slot tick.
C28_BoundedCollections ==
    /\ [](\A u \in Units :
             /\ AtMost(u, supermajority(num_cubesats))
             /\ (pc[u] = "select" /\ ~slot_info[u].aggregated)
                => AtMost(u, supermajority(num_cubesats) - 1))
    /\ [][\A u \in Units :
             timers'[u].slot # timers[u].slot
             => slot_info'[u].precommits = <<>> /\ slot_info'[u].noncommits = <<>>]_vars

\* A unit of a committee of 7 waits in select! with 4 precommits, one short
\* of the threshold.
C28_Witness ==
    \E u \in Units :
        /\ num_cubesats = 7 /\ pc[u] = "select" /\ ~slot_info[u].aggregated
        /\ Len(slot_info[u].precommits) = 4

\* C29 (finalized index not ahead): in every state of a unit the index of
\* the last committed slot is at most the index of the current slot,
\* j <= i.
C29_FinalizedNotAhead ==
    \A u \in Units : slot_info[u].j <= slot_info[u].i

====
